---- MODULE Spec2Model ----
(***************************************************************************)
(* Model of the SCB employment pipeline (src/src/scb_fetch.py,             *)
(* src/src/pipeline.py, src/src/label_enrichment.py), of the cache of its  *)
(* result (src/src/data_manager.py) and of the refresh handler of the      *)
(* dashboard (src/app.py).                                                 *)
(*                                                                         *)
(* Strings are sequences of one-character strings, so that zero-padding,   *)
(* prefixing, stripping, parsing and lexicographic ordering are computed.  *)
(* A data frame is a sequence of rows (records).  A cell that pandas may    *)
(* hold as a string, a number or NaN is a record [kind, s, n].              *)
(***************************************************************************)
EXTENDS Integers, Sequences, FiniteSets, TLC

VARIABLES dfs, pc, error, year_range, raw, employment, combined, tables, out,
          files, memo, upstream, lp, payload, payload_store, app, refreshes,
          refresh_error, rd, rd_seen

\* the state of one run of run_pipeline
pipevars == <<dfs, pc, error, year_range, raw, employment, combined, tables,
              out>>

\* the cache directory, the process that runs the dashboard and a second
\* process that reads the cache
dmvars == <<files, memo, upstream, lp, payload, payload_store, app, refreshes,
            refresh_error, rd, rd_seen>>

vars == <<dfs, pc, error, year_range, raw, employment, combined, tables, out,
          files, memo, upstream, lp, payload, payload_store, app, refreshes,
          refresh_error, rd, rd_seen>>

(***************************************************************************)
(* Bounds                                                                  *)
(***************************************************************************)
MaxRecords == 3

\* the number of times the upstream data changes
MaxVersion == 2

\* the number of rows of a payload, written to a CSV file one by one
CsvRows == 2

\* the number of clicks on the refresh button
MaxRefreshes == 2

(***************************************************************************)
(* Strings                                                                 *)
(***************************************************************************)
\* the characters used, in code-point order
Alphabet == <<" ", "-", "0", "1", "2", "3", "4", "5", "6", "7", "8", "9",
              "A", "B", "T", "x">>

Ord(c) == CHOOSE i \in 1..Len(Alphabet) : Alphabet[i] = c

Digits == {"0", "1", "2", "3", "4", "5", "6", "7", "8", "9"}

DigitVal(c) == Ord(c) - Ord("0")

\* Python's str < str: lexicographic by code point, a proper prefix is less
StrLess(a, b) ==
    \E i \in 1..Len(b) :
        /\ i <= Len(a) + 1
        /\ \A j \in 1..(i - 1) : a[j] = b[j]
        /\ (i = Len(a) + 1 \/ Ord(a[i]) < Ord(b[i]))

\* s[:n]
Prefix(s, n) == SubSeq(s, 1, IF Len(s) < n THEN Len(s) ELSE n)

\* str.zfill(width): pad on the left with "0"; longer strings are unchanged
ZFill(s, width) ==
    IF Len(s) >= width THEN s
    ELSE IF Len(s) > 0 /\ s[1] = "-"
         THEN <<"-">> \o [i \in 1..(width - Len(s)) |-> "0"] \o Tail(s)
         ELSE [i \in 1..(width - Len(s)) |-> "0"] \o s

\* str.strip(): remove leading and trailing blanks
Strip(s) ==
    LET nonblank == {i \in 1..Len(s) : s[i] # " "}
    IN  IF nonblank = {} THEN <<>>
        ELSE LET lo == CHOOSE i \in nonblank : \A j \in nonblank : i <= j
                 hi == CHOOSE i \in nonblank : \A j \in nonblank : j <= i
             IN  SubSeq(s, lo, hi)

(***************************************************************************)
(* Cells                                                                   *)
(***************************************************************************)
Str(s) == [kind |-> "str", s |-> s, n |-> 0]

Num(n) == [kind |-> "num", s |-> <<>>, n |-> n]

NaN == [kind |-> "nan", s |-> <<>>, n |-> 0]

RECURSIVE ParseDigits(_, _)
ParseDigits(s, acc) ==
    IF s = <<>> THEN acc
    ELSE ParseDigits(Tail(s), 10 * acc + DigitVal(Head(s)))

IsDigits(s) == Len(s) > 0 /\ \A i \in 1..Len(s) : s[i] \in Digits

\* to_numeric that parses strings only: a cell that is a number already is
\* not recognised
to_numeric_strings_only(cell) ==
    IF cell.kind # "str" THEN NaN
    ELSE LET t == Strip(cell.s)
         IN  IF IsDigits(t) THEN Num(ParseDigits(t, 0)) ELSE NaN

\* pd.to_numeric(col, errors="coerce") on one cell: integer literals (with
\* surrounding blanks and an optional sign) parse, numbers stay, the rest
\* becomes NaN
to_numeric(cell) ==
    IF cell.kind = "num" THEN cell
    ELSE IF cell.kind = "nan" THEN NaN
    ELSE LET t == Strip(cell.s)
         IN  IF IsDigits(t) THEN Num(ParseDigits(t, 0))
             ELSE IF Len(t) > 1 /\ t[1] = "-" /\ IsDigits(Tail(t))
                  THEN Num(0 - ParseDigits(Tail(t), 0))
                  ELSE NaN

\* Series.fillna(v) on one numeric cell
fillna(cell, v) == IF cell.kind = "nan" THEN v ELSE cell.n

(***************************************************************************)
(* Frames                                                                  *)
(***************************************************************************)
\* the rows F(s[1]), ..., F(s[n]); appending <<>> gives the evaluated sequence
Each(s, F(_)) == [i \in 1..Len(s) |-> F(s[i])] \o <<>>

\* one step of a stable insertion sort: v goes behind the rows not above it
Insert(t, v, Less(_, _)) ==
    LET p == Cardinality({j \in 1..Len(t) : ~Less(v, t[j])})
    IN  SubSeq(t, 1, p) \o <<v>> \o SubSeq(t, p + 1, Len(t))

\* DataFrame.sort_values on several columns: a stable sort by Less
StableSort(s, Less(_, _)) ==
    LET f[i \in 0..Len(s)] ==
            IF i = 0 THEN <<>> ELSE Insert(f[i - 1], s[i], Less)
    IN  f[Len(s)]

\* DataFrame.drop_duplicates(): the first occurrence of every row
Distinct(s) ==
    LET f[i \in 0..Len(s)] ==
            IF i = 0 THEN <<>>
            ELSE IF \E j \in 1..(i - 1) : s[j] = s[i] THEN f[i - 1]
                 ELSE Append(f[i - 1], s[i])
    IN  f[Len(s)]

\* the group keys of a groupby (sort=True): the distinct keys, ascending
GroupKeys(keys, Less(_, _)) == StableSort(Distinct(keys), Less)

Range(s) == {s[i] : i \in 1..Len(s)}

RECURSIVE SumSeq(_)
SumSeq(s) == IF s = <<>> THEN 0 ELSE Head(s) + SumSeq(Tail(s))

(***************************************************************************)
(* Configuration                                                           *)
(***************************************************************************)
TAXONOMY == "ssyk2012"

\* the keys of TABLES, in dictionary order
TABLES == <<"14_to_18", "19_to_21", "20_to_23">>

EXCLUDED_CODES == {<<"0", "0", "0", "2">>, <<"0", "0", "0", "0">>}

Levels == 1..4

(***************************************************************************)
(* scb_fetch.py                                                            *)
(***************************************************************************)
\* occ_dict of one source table: the occupation text the table's metadata
\* gives a code.  The first two tables share their texts, the last one
\* uses other texts (with a trailing blank).
OccDict(t, code) ==
    IF t = "20_to_23" THEN <<"B">> \o code \o <<" ">> ELSE <<"A">> \o code

\* one record of fetch_scb_table
Record(t, code, age, year, value) ==
    [code_4 |-> code, occupation |-> OccDict(t, code), age |-> age,
     year |-> year, value |-> Str(value), source_table |-> t]

table_priority(t) == (CHOOSE i \in 1..Len(TABLES) : TABLES[i] = t) - 1

SameKey(a, b) == a.code_4 = b.code_4 /\ a.age = b.age /\ a.year = b.year

\* the order of sort_values(["code_4", "age", "year", "table_priority"])
KeyPriorityLess(a, b) ==
    \/ StrLess(a.code_4, b.code_4)
    \/ /\ a.code_4 = b.code_4
       /\ \/ StrLess(a.age, b.age)
          \/ /\ a.age = b.age
             /\ \/ StrLess(a.year, b.year)
                \/ /\ a.year = b.year
                   /\ table_priority(a.source_table)
                          < table_priority(b.source_table)

\* drop_duplicates with keep="first"
drop_duplicates_keep_first(s) ==
    LET f[i \in 0..Len(s)] ==
            IF i = 0 THEN <<>>
            ELSE IF \E j \in 1..(i - 1) : SameKey(s[j], s[i])
                 THEN f[i - 1]
                 ELSE Append(f[i - 1], s[i])
    IN  f[Len(s)]

\* drop_duplicates(subset=["code_4", "age", "year"], keep="last")
drop_duplicates(s) ==
    LET f[i \in 0..Len(s)] ==
            IF i = 0 THEN <<>>
            ELSE IF \E j \in (i + 1)..Len(s) : SameKey(s[j], s[i])
                 THEN f[i - 1]
                 ELSE Append(f[i - 1], s[i])
    IN  f[Len(s)]

\* df[~df["code_4"].isin(EXCLUDED_CODES)]
exclude_codes(s) == SelectSeq(s, LAMBDA r : r.code_4 \notin EXCLUDED_CODES)

\* a coercion that also drops the rows whose value is not numeric
coerce_values_dropna(s) ==
    SelectSeq(Each(s, LAMBDA r : [r EXCEPT !.value = to_numeric(@)]),
              LAMBDA r : r.value.kind = "num")

\* df["value"] = pd.to_numeric(df["value"], errors="coerce")
coerce_values(s) == Each(s, LAMBDA r : [r EXCEPT !.value = to_numeric(@)])

\* a reconciliation that removes the non-numeric records before the
\* priority is applied
Reconcile_numeric_first(df) ==
    coerce_values(exclude_codes(drop_duplicates(
        StableSort(SelectSeq(df, LAMBDA r : to_numeric(r.value).kind = "num"),
                   KeyPriorityLess))))

\* the reconciliation of the concatenated frame df
Reconcile(df) ==
    coerce_values(exclude_codes(drop_duplicates(
        StableSort(df, KeyPriorityLess))))

\* a consolidation that removes no excluded code
fetch_all_employment_data_no_exclusion(df) ==
    IF df = <<>> THEN <<>>
    ELSE coerce_values(drop_duplicates(StableSort(df, KeyPriorityLess)))

\* fetch_all_employment_data on the concatenated frame df: an empty frame
\* when no table returned a record
fetch_all_employment_data(df) == IF df = <<>> THEN <<>> ELSE Reconcile(df)

\* every enumeration of a finite set of records
RECURSIVE Orders(_)
Orders(S) ==
    IF S = {} THEN {<<>>}
    ELSE UNION {{<<x>> \o p : p \in Orders(S \ {x})} : x \in S}

\* pd.concat(dfs): the tables follow each other in the order of TABLES, the
\* records of one table are in the order the API returned them
RECURSIVE ConcatOrders(_)
ConcatOrders(S) ==
    IF S = {} THEN {<<>>}
    ELSE LET first == {x \in S : \A y \in S :
                          table_priority(x.source_table)
                              <= table_priority(y.source_table)}
         IN  UNION {{<<x>> \o p : p \in ConcatOrders(S \ {x})} : x \in first}

(***************************************************************************)
(* pipeline.py                                                             *)
(***************************************************************************)
\* an absent year bound (None)
None == <<>>

\* filter_years: the inclusive range; a bound is None or <<year>>
filter_years(df, year_min, year_max) ==
    SelectSeq(df, LAMBDA r :
        /\ (year_min = None \/ r.year >= year_min[1])
        /\ (year_max = None \/ r.year <= year_max[1]))

\* the derived columns of one reconciled record; year is still a cell
HierarchyRow(r) ==
    LET code4 == ZFill(r.code_4, 4)
    IN  [year       |-> to_numeric(Str(r.year)),
         age        |-> Strip(r.age),
         code       |-> [n \in Levels |->
                            IF n = 4 THEN code4 ELSE Prefix(code4, n)],
         label      |-> [n \in Levels |->
                            IF n = 4 THEN Strip(r.occupation)
                            ELSE Prefix(code4, n)],
         employment |-> fillna(to_numeric(r.value), 0)]

\* prepare_employment on a non-empty frame
prepare_employment(rawdf, year_min, year_max) ==
    LET emp   == Each(rawdf, HierarchyRow)
        known == SelectSeq(emp, LAMBDA r : r.year.kind = "num")
        typed == Each(known, LAMBDA r : [r EXCEPT !.year = r.year.n])
    IN  filter_years(typed, year_min, year_max)

YearCodeLess(a, b) ==
    \/ a.year < b.year
    \/ a.year = b.year /\ StrLess(a.code, b.code)

\* a child count that counts the distinct leaf codes below a code
nunique_leaves(base, level) ==
    LET keys == GroupKeys(Each(base, LAMBDA b :
                    [year |-> b.year, code |-> b.code[level]]), YearCodeLess)
    IN  Each(keys, LAMBDA k :
            [year |-> k.year, code |-> k.code,
             n_children |->
                 Cardinality({b.code[4] : b \in
                     {c \in Range(base) : /\ c.year = k.year
                                          /\ c.code[level] = k.code}})])

\* counts[level] of compute_children_maps for a level below 4: the number
\* of distinct codes of the next level per (year, code)
nunique_children(base, level) ==
    LET keys == GroupKeys(Each(base, LAMBDA b :
                    [year |-> b.year, code |-> b.code[level]]), YearCodeLess)
    IN  Each(keys, LAMBDA k :
            [year |-> k.year, code |-> k.code,
             n_children |->
                 Cardinality({b.code[level + 1] : b \in
                     {c \in Range(base) : /\ c.year = k.year
                                          /\ c.code[level] = k.code}})])

\* a leaf count under the convention that a leaf has no child
leaf_children_none(base) ==
    LET keys == GroupKeys(Each(base, LAMBDA b :
                    [year |-> b.year, code |-> b.code[4]]), YearCodeLess)
    IN  Each(keys, LAMBDA k :
            [year |-> k.year, code |-> k.code, n_children |-> 0])

\* counts[4]: one row per (year, code4), n_children set to 1
leaf_children(base) ==
    LET keys == GroupKeys(Each(base, LAMBDA b :
                    [year |-> b.year, code |-> b.code[4]]), YearCodeLess)
    IN  Each(keys, LAMBDA k :
            [year |-> k.year, code |-> k.code, n_children |-> 1])

\* child counts taken from the rows with a positive employment only
compute_children_maps_positive(df) ==
    LET base == Distinct(Each(SelectSeq(df, LAMBDA r : r.employment > 0),
                    LAMBDA r : [year |-> r.year, code |-> r.code]))
    IN  <<nunique_children(base, 1), nunique_children(base, 2),
          nunique_children(base, 3), leaf_children(base)>>

\* compute_children_maps: counts[1..4]
compute_children_maps(df) ==
    LET base == Distinct(Each(df, LAMBDA r :
                    [year |-> r.year, code |-> r.code]))
    IN  <<nunique_children(base, 1), nunique_children(base, 2),
          nunique_children(base, 3), leaf_children(base)>>

AgeKeyLess(a, b) ==
    \/ a.year < b.year
    \/ /\ a.year = b.year
       /\ \/ StrLess(a.age, b.age)
          \/ /\ a.age = b.age
             /\ \/ StrLess(a.code, b.code)
                \/ a.code = b.code /\ StrLess(a.label, b.label)

TotalKeyLess(a, b) ==
    \/ a.year < b.year
    \/ /\ a.year = b.year
       /\ \/ StrLess(a.code, b.code)
          \/ a.code = b.code /\ StrLess(a.label, b.label)

\* Series.sum() of the employment column
SumEmployment(s) == SumSeq(Each(s, LAMBDA r : r.employment))

\* an age view that takes the first employment of a group, not the sum
age_view_first(emp, level) ==
    LET keys == GroupKeys(Each(emp, LAMBDA r :
                    [year |-> r.year, age |-> r.age, code |-> r.code[level],
                     label |-> r.label[level]]), AgeKeyLess)
    IN  Each(keys, LAMBDA k :
            [year |-> k.year, age |-> k.age, code |-> k.code,
             label |-> k.label,
             employment |->
                 SelectSeq(emp, LAMBDA r :
                     /\ r.year = k.year
                     /\ r.age = k.age
                     /\ r.code[level] = k.code
                     /\ r.label[level] = k.label)[1].employment])

\* emp.groupby(["year", "age", code_col, label_col])["employment"].sum()
age_view(emp, level) ==
    LET keys == GroupKeys(Each(emp, LAMBDA r :
                    [year |-> r.year, age |-> r.age, code |-> r.code[level],
                     label |-> r.label[level]]), AgeKeyLess)
    IN  Each(keys, LAMBDA k :
            [year |-> k.year, age |-> k.age, code |-> k.code,
             label |-> k.label,
             employment |->
                 SumEmployment(SelectSeq(emp, LAMBDA r :
                     /\ r.year = k.year
                     /\ r.age = k.age
                     /\ r.code[level] = k.code
                     /\ r.label[level] = k.label))])

\* age_view.groupby(["year", code_col, label_col])["employment"].sum()
total_view(ageview) ==
    LET keys == GroupKeys(Each(ageview, LAMBDA r :
                    [year |-> r.year, code |-> r.code, label |-> r.label]),
                    TotalKeyLess)
    IN  Each(keys, LAMBDA k :
            [year |-> k.year, code |-> k.code, label |-> k.label,
             employment_total |->
                 SumEmployment(SelectSeq(ageview, LAMBDA r :
                     /\ r.year = k.year
                     /\ r.code = k.code
                     /\ r.label = k.label))])

level_views(emp, level) ==
    LET av == age_view(emp, level)
    IN  [age |-> av, total |-> total_view(av)]

build_employment_views(emp) ==
    <<level_views(emp, 1), level_views(emp, 2), level_views(emp, 3),
      level_views(emp, 4)>>

RECURSIVE Flatten(_)
Flatten(ss) == IF ss = <<>> THEN <<>> ELSE Head(ss) \o Flatten(Tail(ss))

\* left.merge(right, how="left"): the rows of left in order, one row per
\* matching row of right, or one row with a missing value when none matches
LeftMerge(left, right, Match(_, _), Joined(_, _), Unmatched(_)) ==
    Flatten(Each(left, LAMBDA a :
        LET m == SelectSeq(right, LAMBDA q : Match(a, q))
        IN  IF m = <<>> THEN <<Unmatched(a)>>
            ELSE Each(m, LAMBDA q : Joined(a, q))))

build_level_frame(level, views, children) ==
    LET with_total ==
            LeftMerge(views[level].age, views[level].total,
                LAMBDA a, t : a.year = t.year /\ a.code = t.code
                                 /\ a.label = t.label,
                LAMBDA a, t : [taxonomy |-> TAXONOMY, level |-> level,
                               code |-> a.code, label |-> a.label,
                               year |-> a.year, n_children |-> NaN,
                               age |-> a.age, employment |-> a.employment,
                               employment_total |-> Num(t.employment_total)],
                LAMBDA a : [taxonomy |-> TAXONOMY, level |-> level,
                            code |-> a.code, label |-> a.label,
                            year |-> a.year, n_children |-> NaN,
                            age |-> a.age, employment |-> a.employment,
                            employment_total |-> NaN])
    IN  LeftMerge(with_total, children[level],
            LAMBDA a, c : a.year = c.year /\ a.code = c.code,
            LAMBDA a, c : [a EXCEPT !.n_children = Num(c.n_children)],
            LAMBDA a : a)

\* the order of sort_values(["level", "code", "year", "age"])
CombinedLess(a, b) ==
    \/ a.level < b.level
    \/ /\ a.level = b.level
       /\ \/ StrLess(a.code, b.code)
          \/ /\ a.code = b.code
             /\ \/ a.year < b.year
                \/ a.year = b.year /\ StrLess(a.age, b.age)

\* a combined frame made of the leaf level only
combine_levels_leaf_only(emp) ==
    StableSort(build_level_frame(4, build_employment_views(emp),
                                 compute_children_maps(emp)), CombinedLess)

\* the combined frame of run_pipeline before the label overlay
combine_levels(emp) ==
    LET children  == compute_children_maps(emp)
        emp_views == build_employment_views(emp)
    IN  StableSort(build_level_frame(1, emp_views, children)
                   \o build_level_frame(2, emp_views, children)
                   \o build_level_frame(3, emp_views, children)
                   \o build_level_frame(4, emp_views, children), CombinedLess)

(***************************************************************************)
(* label_enrichment.py                                                     *)
(***************************************************************************)
\* a lookup that ignores the code: the first label of the table, or NaN
map_label_any_code(mapping, code) ==
    IF mapping = <<>> THEN NaN ELSE Str(mapping[1].label)

\* Series.map(mapping) on one code: the translated label, or NaN
map_label(mapping, code) ==
    LET m == SelectSeq(mapping, LAMBDA t : t.code = code)
    IN  IF m = <<>> THEN NaN ELSE Str(m[1].label)

\* an overlay by inner join: the rows without a translation are lost
apply_translations_inner(df, tbls) ==
    SelectSeq(
        Each(df, LAMBDA r :
            IF r.level \in DOMAIN tbls
            THEN LET m == map_label(tbls[r.level], r.code)
                 IN  [r EXCEPT !.label = IF m.kind = "nan" THEN <<>> ELSE m.s]
            ELSE r),
        LAMBDA r : r.label # <<>>)

\* apply_translations(df, tables=tbls); tbls maps a level to its table
apply_translations(df, tbls) ==
    Each(df, LAMBDA r :
        IF r.level \in DOMAIN tbls
        THEN LET m == map_label(tbls[r.level], r.code)
             IN  [r EXCEPT !.label = IF m.kind = "nan" THEN @ ELSE m.s]
        ELSE r)

(***************************************************************************)
(* data_manager.py and app.py                                              *)
(***************************************************************************)
\* SCB_CACHE: the file name as a stem and its suffixes
SCB_CACHE == [stem |-> "scb_employment_v1", suffix |-> <<".csv">>]

\* a temporary path that is the path itself
tmp_path_direct(path) == path

\* path.with_suffix(path.suffix + ".tmp")
tmp_path(path) == [path EXCEPT !.suffix = @ \o <<".tmp">>]

\* the paths of the cache directory
Paths == {SCB_CACHE, tmp_path(SCB_CACHE)}

\* a path without a file
Absent == [exists |-> FALSE, ver |-> 0, rows |-> 0]

\* a CSV file with the first k rows of the payload of version v
Csv(v, k) == [exists |-> TRUE, ver |-> v, rows |-> k]

\* the file holds every row of its payload
Complete(c) == c.exists /\ c.rows = CsvRows

\* no DataFrame
NoPayload == [ver |-> 0, rows |-> 0]

\* the DataFrame run_pipeline returns for version v of the upstream data
Frame(v) == [ver |-> v, rows |-> CsvRows]

\* pd.read_csv of a file: the rows the file holds
read_csv(c) == [ver |-> c.ver, rows |-> c.rows]

\* Path.replace: an atomic rename over the destination
replace(fs, src, dst) ==
    IF src = dst THEN fs ELSE [fs EXCEPT ![dst] = fs[src], ![src] = Absent]

\* the keyword parameters of load_payload: it has none
load_payload_params == {}

\* the keyword arguments of the call in the refresh handler
refresh_kwargs == {"force_recompute"}

\* a call binds when every keyword argument is a parameter; otherwise
\* Python raises TypeError
call_binds(kwargs, params) == kwargs \subseteq params

(***************************************************************************)
(* Inputs                                                                  *)
(***************************************************************************)
\* the count a table reports: each table has its own, so that a value
\* tells which table it came from
TableValue(t) ==
    CASE t = "14_to_18" -> <<"1">>
      [] t = "19_to_21" -> <<"2">>
      [] t = "20_to_23" -> <<"3">>

\* records of the two overlapping tables over a small code hierarchy, two
\* age groups and two years
HierarchyRecords ==
    {Record(t, c, k[1], k[2], TableValue(t)) :
        t \in {"19_to_21", "20_to_23"},
        c \in {<<"1", "2", "1", "1">>, <<"1", "2", "1", "2">>,
               <<"1", "2", "2", "1">>, <<"1", "3", "1", "1">>},
        k \in {<<<<"1", "6">>, <<"2", "0", "2", "0">>>>,
               <<<<"2", "5">>, <<"2", "0", "2", "0">>>>,
               <<<<"1", "6">>, <<"2", "0", "2", "1">>>>}}

\* records of all three tables for one age group and year, with excluded
\* and unpadded codes and non-numeric values
OverlapRecords ==
    UNION {{Record(t, c, <<"1", "6">>, <<"2", "0", "2", "0">>, v) :
               c \in {<<"1", "2", "1", "1">>, <<"1", "2", "1", "2">>,
                      <<"0", "0", "0", "2">>, <<"2">>},
               v \in {TableValue(t), <<"x">>}} : t \in Range(TABLES)}

\* records of the two overlapping tables with a code longer than four
\* characters, an age with a trailing blank and a negative count, and
\* records with a year that is not a number or with an excluded code
EdgeRecords ==
    UNION {{Record(t, c, a, <<"2", "0", "2", "0">>, v) :
               c \in {<<"1", "2", "1", "1">>, <<"1", "2", "3", "4", "5">>},
               a \in {<<"1", "6">>, <<"1", "6", " ">>},
               v \in {TableValue(t), <<"-", "1">>}}
           \cup {Record(t, <<"1", "2", "1", "1">>, <<"1", "6">>, <<"x">>,
                         TableValue(t)),
                  Record(t, <<"0", "0", "0", "0">>, <<"1", "6">>,
                         <<"2", "0", "2", "0">>, TableValue(t))} :
           t \in {"19_to_21", "20_to_23"}}

\* the (year_min, year_max) arguments of run_pipeline
YearRanges == {<<None, None>>, <<<<2021>>, None>>, <<None, <<2020>>>>}

\* translation workbooks: one table per level
NoEntries == [level \in Levels |-> <<>>]

SomeEntries ==
    [level \in Levels |->
        CASE level = 1 -> <<[code |-> <<"1">>, label |-> <<"T", "1">>],
                            [code |-> <<"1", "2", "1", "1">>,
                             label |-> <<"T", "x">>]>>
          [] level = 2 -> <<>>
          [] level = 3 -> <<[code |-> <<"1", "2", "1">>,
                             label |-> <<"T", "3">>],
                            [code |-> <<"0", "1", "2">>,
                             label |-> <<"T", "x">>]>>
          [] level = 4 -> <<[code |-> <<"1", "2", "1", "1">>,
                             label |-> <<"T", "4">>],
                            [code |-> <<"0", "0", "0", "2">>,
                             label |-> <<"T", "0">>]>>]

\* what load_translation_tables does: it returns a workbook or raises
LoadOutcomes ==
    {[ok |-> TRUE, tables |-> NoEntries], [ok |-> TRUE, tables |-> SomeEntries],
     [ok |-> FALSE, tables |-> <<>>]}

(***************************************************************************)
(* State machine                                                           *)
(***************************************************************************)
Init ==
    /\ dfs = {}
    /\ pc = "fetch"
    /\ error = "none"
    /\ year_range = <<None, None>>
    /\ raw = <<>>
    /\ employment = <<>>
    /\ combined = <<>>
    /\ tables = <<>>
    /\ out = <<>>
    /\ files = [p \in Paths |-> Absent]
    /\ memo = NoPayload
    /\ upstream = 1
    /\ lp = "idle"
    /\ payload = NoPayload
    /\ payload_store = NoPayload
    /\ app = "stopped"
    /\ refreshes = 0
    /\ refresh_error = "none"
    /\ rd = "idle"
    /\ rd_seen = Absent

\* fetch_scb_table appends one record of the API response; a table has one
\* record per (code, age, year)
FetchRecord(r, max) ==
    /\ pc = "fetch"
    /\ Cardinality(dfs) < max
    /\ \A q \in dfs : ~(q.source_table = r.source_table /\ SameKey(q, r))
    /\ dfs' = dfs \cup {r}
    /\ UNCHANGED <<pc, error, year_range, raw, employment, combined, tables, out>>
    /\ UNCHANGED dmvars

\* run_pipeline(year_min, year_max), from the fetch to the label overlay
RunPipeline ==
    /\ pc = "fetch"
    /\ \E df \in ConcatOrders(dfs) :
        LET r == fetch_all_employment_data(df)
        IN  /\ raw' = r
            /\ IF r = <<>>
               THEN /\ pc' = "failed"
                    /\ error' = "SCB fetch returned an empty DataFrame."
                    /\ UNCHANGED <<year_range, employment, combined, tables, out>>
               ELSE \E yr \in YearRanges :
                    LET emp == prepare_employment(r, yr[1], yr[2])
                    IN  /\ year_range' = yr
                        /\ employment' = emp
                        /\ IF emp = <<>>
                           THEN /\ pc' = "failed"
                                /\ error' = "No SCB employment rows remain after filtering."
                                /\ UNCHANGED <<combined, tables, out>>
                           ELSE LET comb == combine_levels(emp)
                                IN  /\ combined' = comb
                                    /\ \E load \in LoadOutcomes :
                                       IF load.ok
                                       THEN /\ tables' = load.tables
                                            /\ out' = apply_translations(comb, load.tables)
                                            /\ pc' = "done"
                                            /\ error' = "none"
                                       ELSE /\ pc' = "failed"
                                            /\ error' = "translation workbook unavailable"
                                            /\ UNCHANGED <<tables, out>>
    /\ UNCHANGED dfs
    /\ UNCHANGED dmvars

Next ==
    \/ \E r \in HierarchyRecords : FetchRecord(r, MaxRecords)
    \/ RunPipeline

Spec == Init /\ [][Next]_vars

NextOverlap ==
    \/ \E r \in OverlapRecords : FetchRecord(r, MaxRecords)
    \/ RunPipeline

SpecOverlap == Init /\ [][NextOverlap]_vars

NextEdge ==
    \/ \E r \in EdgeRecords : FetchRecord(r, MaxRecords)
    \/ RunPipeline

SpecEdge == Init /\ [][NextEdge]_vars

\* the statistics office publishes new data: run_pipeline returns another
\* table from now on
UpstreamChange ==
    /\ upstream < MaxVersion
    /\ upstream' = upstream + 1
    /\ UNCHANGED <<files, memo, lp, payload, payload_store, app, refreshes,
                   refresh_error, rd, rd_seen>>
    /\ UNCHANGED pipevars

\* the cache file is deleted by hand to force a rebuild
DeleteCache ==
    /\ files[SCB_CACHE].exists
    /\ files' = [files EXCEPT ![SCB_CACHE] = Absent]
    /\ UNCHANGED <<memo, upstream, lp, payload, payload_store, app, refreshes,
                   refresh_error, rd, rd_seen>>
    /\ UNCHANGED pipevars

\* the dashboard process starts: payload_store = reactive.Value(load_payload())
AppStart ==
    /\ app = "stopped"
    /\ app' = "loading"
    /\ lp' = "exists"
    /\ UNCHANGED <<files, memo, upstream, payload, payload_store, refreshes,
                   refresh_error, rd, rd_seen>>
    /\ UNCHANGED pipevars

\* load_payload: if SCB_CACHE.exists()
LoadExists ==
    /\ lp = "exists"
    /\ lp' = IF files[SCB_CACHE].exists THEN "read" ELSE "compute"
    /\ UNCHANGED <<files, memo, upstream, payload, payload_store, app,
                   refreshes, refresh_error, rd, rd_seen>>
    /\ UNCHANGED pipevars

\* load_payload: return pd.read_csv(SCB_CACHE), or fall back to the
\* recompute when the read raises
LoadRead ==
    /\ lp = "read"
    /\ \/ /\ files[SCB_CACHE].exists
          /\ payload' = read_csv(files[SCB_CACHE])
          /\ lp' = "return"
       \/ /\ lp' = "compute"
          /\ UNCHANGED payload
    /\ UNCHANGED <<files, memo, upstream, payload_store, app, refreshes,
                   refresh_error, rd, rd_seen>>
    /\ UNCHANGED pipevars

\* load_payload: payload = _compute_pipeline_payload(); the lru_cache
\* returns the memoized table or runs the pipeline, and an error of the
\* pipeline ends the process
LoadCompute ==
    /\ lp = "compute"
    /\ \/ /\ memo # NoPayload
          /\ payload' = memo
          /\ lp' = "mkdir"
          /\ UNCHANGED <<memo, app, payload_store, refresh_error>>
       \/ /\ memo = NoPayload
          /\ payload' = Frame(upstream)
          /\ memo' = Frame(upstream)
          /\ lp' = "mkdir"
          /\ UNCHANGED <<app, payload_store, refresh_error>>
       \/ /\ memo = NoPayload
          /\ payload' = NoPayload
          /\ payload_store' = NoPayload
          /\ lp' = "idle"
          /\ app' = "stopped"
          /\ refresh_error' = "none"
          /\ UNCHANGED memo
    /\ UNCHANGED <<files, upstream, refreshes, rd, rd_seen>>
    /\ UNCHANGED pipevars

\* _atomic_to_csv: path.parent.mkdir(parents=True, exist_ok=True)
AtomicMkdir ==
    /\ lp = "mkdir"
    /\ lp' = "to_csv"
    /\ UNCHANGED <<files, memo, upstream, payload, payload_store, app,
                   refreshes, refresh_error, rd, rd_seen>>
    /\ UNCHANGED pipevars

\* df.to_csv(tmp_path): the file is opened for writing, which empties it
ToCsvOpen ==
    /\ lp = "to_csv"
    /\ files' = [files EXCEPT ![tmp_path(SCB_CACHE)] = Csv(payload.ver, 0)]
    /\ lp' = "write"
    /\ UNCHANGED <<memo, upstream, payload, payload_store, app, refreshes,
                   refresh_error, rd, rd_seen>>
    /\ UNCHANGED pipevars

\* df.to_csv(tmp_path): one more row is written; after the last row the
\* file is closed
ToCsvWriteRow ==
    /\ lp = "write"
    /\ files[tmp_path(SCB_CACHE)].rows < payload.rows
    /\ files' = [files EXCEPT ![tmp_path(SCB_CACHE)].rows = @ + 1]
    /\ lp' = IF files[tmp_path(SCB_CACHE)].rows + 1 = payload.rows
             THEN "replace" ELSE "write"
    /\ UNCHANGED <<memo, upstream, payload, payload_store, app, refreshes,
                   refresh_error, rd, rd_seen>>
    /\ UNCHANGED pipevars

\* tmp_path.replace(path)
AtomicReplace ==
    /\ lp = "replace"
    /\ files' = replace(files, tmp_path(SCB_CACHE), SCB_CACHE)
    /\ lp' = "return"
    /\ UNCHANGED <<memo, upstream, payload, payload_store, app, refreshes,
                   refresh_error, rd, rd_seen>>
    /\ UNCHANGED pipevars

\* a step of _atomic_to_csv raises: load_payload logs a warning and goes on
AtomicFails ==
    /\ lp \in {"mkdir", "to_csv", "write", "replace"}
    /\ lp' = "return"
    /\ UNCHANGED <<files, memo, upstream, payload, payload_store, app,
                   refreshes, refresh_error, rd, rd_seen>>
    /\ UNCHANGED pipevars

\* load_payload returns and the caller stores the table in payload_store
LoadReturn ==
    /\ lp = "return"
    /\ payload_store' = payload
    /\ app' = "running"
    /\ lp' = "idle"
    /\ UNCHANGED <<files, memo, upstream, payload, refreshes, refresh_error,
                   rd, rd_seen>>
    /\ UNCHANGED pipevars

\* the process is interrupted, at any step: what it held in memory is lost,
\* the files stay as they are
Interrupt ==
    /\ app # "stopped"
    /\ app' = "stopped"
    /\ lp' = "idle"
    /\ memo' = NoPayload
    /\ payload' = NoPayload
    /\ payload_store' = NoPayload
    /\ refresh_error' = "none"
    /\ UNCHANGED <<files, upstream, refreshes, rd, rd_seen>>
    /\ UNCHANGED pipevars

\* _refresh_payload, on a click of refresh_data: it calls
\* load_payload(force_recompute=True) and stores the result
RefreshPayload ==
    /\ app = "running"
    /\ lp = "idle"
    /\ refreshes < MaxRefreshes
    /\ refreshes' = refreshes + 1
    /\ IF call_binds(refresh_kwargs, load_payload_params)
       THEN /\ app' = "loading"
            /\ lp' = "exists"
            /\ refresh_error' = "none"
       ELSE /\ refresh_error' = "TypeError"
            /\ UNCHANGED <<app, lp>>
    /\ UNCHANGED <<files, memo, upstream, payload, payload_store, rd, rd_seen>>
    /\ UNCHANGED pipevars

\* load_payload in a second process: SCB_CACHE.exists() is true
ReaderExists ==
    /\ rd = "idle"
    /\ files[SCB_CACHE].exists
    /\ rd' = "read"
    /\ UNCHANGED <<files, memo, upstream, lp, payload, payload_store, app,
                   refreshes, refresh_error, rd_seen>>
    /\ UNCHANGED pipevars

\* load_payload in a second process: pd.read_csv(SCB_CACHE) reads what the
\* file holds now
ReaderRead ==
    /\ rd = "read"
    /\ rd_seen' = files[SCB_CACHE]
    /\ rd' = "idle"
    /\ UNCHANGED <<files, memo, upstream, lp, payload, payload_store, app,
                   refreshes, refresh_error>>
    /\ UNCHANGED pipevars

NextCache ==
    \/ UpstreamChange
    \/ DeleteCache
    \/ AppStart
    \/ LoadExists
    \/ LoadRead
    \/ LoadCompute
    \/ AtomicMkdir
    \/ ToCsvOpen
    \/ ToCsvWriteRow
    \/ AtomicReplace
    \/ AtomicFails
    \/ LoadReturn
    \/ Interrupt
    \/ RefreshPayload
    \/ ReaderExists
    \/ ReaderRead

SpecCache == Init /\ [][NextCache]_vars

(***************************************************************************)
(* Properties                                                              *)
(***************************************************************************)
\* the record of the highest-priority table among the fetched records with
\* the key of x
HighestPriority(x) ==
    CHOOSE y \in dfs :
        /\ SameKey(y, x)
        /\ \A z \in dfs : SameKey(z, x) =>
               table_priority(z.source_table) <= table_priority(y.source_table)

NonNumeric(x) == to_numeric(x.value).kind = "nan"

\* the highest-priority record with the key of x and a numeric value
HighestNumeric(x) ==
    CHOOSE y \in dfs :
        /\ SameKey(y, x) /\ ~NonNumeric(y)
        /\ \A z \in dfs : (SameKey(z, x) /\ ~NonNumeric(z)) =>
               table_priority(z.source_table) <= table_priority(y.source_table)

\* x is the highest-priority record of its key and is not numeric, while a
\* lower-priority record of the key is numeric
ShadowsNumeric(x) ==
    /\ x = HighestPriority(x)
    /\ x.code_4 \notin EXCLUDED_CODES
    /\ NonNumeric(x)
    /\ \E y \in dfs : SameKey(y, x) /\ ~NonNumeric(y)

\* every fetched record with the key of x is non-numeric
AllNonNumeric(x) == \A y \in dfs : SameKey(y, x) => NonNumeric(y)

YearOf(x) == to_numeric(Str(x.year))

\* the year of x parses and passes the year filter of the run
InYearRange(x) ==
    /\ YearOf(x).kind = "num"
    /\ (year_range[1] = None \/ YearOf(x).n >= year_range[1][1])
    /\ (year_range[2] = None \/ YearOf(x).n <= year_range[2][1])

\* the row i of the returned table is the level-4 row of the key of x
LeafRowOf(i, x) ==
    /\ out[i].level = 4
    /\ out[i].code = ZFill(x.code_4, 4)
    /\ out[i].year = YearOf(x).n
    /\ out[i].age = Strip(x.age)

\* C1: employment_total of every row of the returned table equals the sum of
\* employment over all age-group rows with the same (level, code, year)
C1_TotalIsSumOverAgeGroups ==
    pc = "done" =>
        \A i \in 1..Len(out) :
            out[i].employment_total =
                Num(SumEmployment(SelectSeq(out, LAMBDA r :
                    /\ r.level = out[i].level
                    /\ r.code = out[i].code
                    /\ r.year = out[i].year)))

\* C2: employment of a row at level 1-3 equals the sum of employment of the
\* level-4 rows of the same year and age below its code, and per year and age
\* the sum over all codes is the same at each level
C2_LevelsConserveEmployment ==
    pc = "done" =>
        \A i \in 1..Len(out) :
            /\ out[i].level < 4 =>
                 out[i].employment =
                     SumEmployment(SelectSeq(out, LAMBDA r :
                         /\ r.level = 4
                         /\ r.year = out[i].year
                         /\ r.age = out[i].age
                         /\ Prefix(r.code, out[i].level) = out[i].code))
            /\ \A n \in 1..3 :
                 SumEmployment(SelectSeq(out, LAMBDA r :
                     r.level = n /\ r.year = out[i].year /\ r.age = out[i].age))
                 = SumEmployment(SelectSeq(out, LAMBDA r :
                     r.level = 4 /\ r.year = out[i].year /\ r.age = out[i].age))

\* a level-3 row with two level-4 rows of its year and age below it
C2_Witness ==
    /\ pc = "done"
    /\ \E i, j, k \in 1..Len(out) :
        /\ out[i].level = 3 /\ out[j].level = 4 /\ out[k].level = 4
        /\ out[j].code # out[k].code
        /\ Prefix(out[j].code, 3) = out[i].code
        /\ Prefix(out[k].code, 3) = out[i].code
        /\ out[j].year = out[i].year /\ out[k].year = out[i].year
        /\ out[j].age = out[i].age /\ out[k].age = out[i].age
        /\ out[j].employment # out[k].employment

\* C3: for every order of the concatenated records, the reconciled table has
\* one record per key, and for a key that is not excluded it is the record
\* of the highest-priority table that reports the key
C3_HighestPriorityWins ==
    pc # "fetch" =>
        \A p \in Orders(dfs) :
            LET r == fetch_all_employment_data(p)
            IN  /\ \A i, j \in 1..Len(r) : SameKey(r[i], r[j]) => i = j
                /\ \A x \in dfs : x.code_4 \notin EXCLUDED_CODES =>
                      \E i \in 1..Len(r) :
                          /\ SameKey(r[i], x)
                          /\ r[i].source_table = HighestPriority(x).source_table
                          /\ r[i].occupation = HighestPriority(x).occupation
                          /\ r[i].value = to_numeric(HighestPriority(x).value)
                /\ r = raw

\* all three tables report one key with numeric values
C3_Witness ==
    /\ pc = "done"
    /\ \E x \in dfs :
        /\ x.code_4 \notin EXCLUDED_CODES
        /\ \A t \in Range(TABLES) :
              \E y \in dfs : SameKey(y, x) /\ y.source_table = t /\ ~NonNumeric(y)

C6_ExcludedCodesNeverInOutput ==
    pc = "done" =>
        \A i \in 1..Len(out) :
            /\ out[i].level = 4 => out[i].code \notin EXCLUDED_CODES
            /\ out[i].level < 4 =>
                 LET kept == SelectSeq(employment, LAMBDA e :
                                 /\ e.code[4] \notin EXCLUDED_CODES
                                 /\ e.year = out[i].year
                                 /\ e.code[out[i].level] = out[i].code)
                 IN  /\ out[i].employment =
                            SumEmployment(SelectSeq(kept, LAMBDA e :
                                e.age = out[i].age))
                     /\ out[i].employment_total = Num(SumEmployment(kept))
                     /\ out[i].n_children =
                            Num(Cardinality({e.code[out[i].level + 1] :
                                                e \in Range(kept)}))

\* C7: n_children of a row at level n < 4 is the number of distinct codes of
\* level n+1 of the hierarchical table in the row's year below the row's code
C7_ChildrenAreDistinctNextLevelCodes ==
    pc = "done" =>
        \A i \in 1..Len(out) : out[i].level < 4 =>
            out[i].n_children =
                Num(Cardinality(
                    {e.code[out[i].level + 1] : e \in
                        {d \in Range(employment) :
                            /\ d.year = out[i].year
                            /\ d.code[out[i].level] = out[i].code}}))

\* a level-2 code with two level-3 children, one of which has two leaves
C7_Witness ==
    /\ pc = "done"
    /\ \E i, j \in 1..Len(out) :
        /\ out[i].level = 2 /\ out[i].n_children = Num(2)
        /\ out[j].level = 3 /\ out[j].n_children = Num(2)
        /\ out[i].code = Prefix(out[j].code, 2)
        /\ out[i].year = out[j].year

\* C8: every level-4 row of the returned table has n_children 1
C8_LeafHasOneChild ==
    pc = "done" =>
        \A i \in 1..Len(out) : out[i].level = 4 => out[i].n_children = Num(1)

\* a leaf code with rows for two age groups and in two years
C8_Witness ==
    /\ pc = "done"
    /\ \E i, j, k \in 1..Len(out) :
        /\ out[i].level = 4 /\ out[j].level = 4 /\ out[k].level = 4
        /\ out[i].code = out[j].code /\ out[i].code = out[k].code
        /\ out[i].year = out[j].year /\ out[i].age # out[j].age
        /\ out[i].year # out[k].year

\* C9: reconciling the reconciled table, as a single source, returns it
C9_ReconcileIdempotent ==
    pc # "fetch" => fetch_all_employment_data(raw) = raw

\* the first reconciliation removed records and left numbers and a NaN
C9_Witness ==
    /\ pc = "done"
    /\ Len(raw) >= 2
    /\ Len(raw) < Cardinality(dfs)
    /\ \E i, j \in 1..Len(raw) :
          raw[i].value.kind = "num" /\ raw[j].value = NaN

\* C10: the label overlay returns the rows of its input in the same order
\* and changes no column but label
C10_OverlayChangesOnlyLabel ==
    pc = "done" =>
        /\ Len(out) = Len(combined)
        /\ \A i \in 1..Len(out) :
              [out[i] EXCEPT !.label = combined[i].label] = combined[i]

\* the overlay replaced the label of one row and kept the label of another
C10_Witness ==
    /\ pc = "done"
    /\ \E i, j \in 1..Len(out) :
        /\ out[i].label # combined[i].label
        /\ out[j].label = combined[j].label
        /\ out[i].level = out[j].level

\* the entries of the lookup of the level of row i of the returned table
\* that have the code of the row
EntriesOf(i) ==
    SelectSeq(tables[out[i].level], LAMBDA t : t.code = out[i].code)

\* C11: after the overlay the label of a row at level n is the translation
\* of its code in the level-n lookup when there is one, and the label before
\* the overlay otherwise; removing the lookup of another level m changes no
\* label of a row at level n
C11_OverlayLevelScopedWithFallback ==
    pc = "done" =>
        /\ \A i \in 1..Len(out) :
              /\ EntriesOf(i) # <<>> => out[i].label = EntriesOf(i)[1].label
              /\ EntriesOf(i) = <<>> => out[i].label = combined[i].label
        /\ \A m \in Levels :
              LET alt == apply_translations(combined,
                                            [tables EXCEPT ![m] = <<>>])
              IN  \A i \in 1..Len(out) :
                      out[i].level # m => alt[i].label = out[i].label

\* a level-4 row is translated by the level-4 lookup although the level-1
\* lookup has another entry for its code, and a level-3 row without an entry
\* keeps its code as label
C11_Witness ==
    /\ pc = "done"
    /\ \E i, j \in 1..Len(out) :
        /\ out[i].level = 4 /\ out[i].label = <<"T", "4">>
        /\ \E k \in 1..Len(tables[1]) :
              /\ tables[1][k].code = out[i].code
              /\ tables[1][k].label # out[i].label
        /\ out[j].level = 3 /\ EntriesOf(j) = <<>>
        /\ tables[3] # <<>>
        /\ out[j].label = out[j].code

\* C12: the run completes whenever the rollup was computed, whether or not
\* the translation workbook could be retrieved, and returns the rows of the
\* combined table
C12_TranslationOptional ==
    (pc # "fetch" /\ combined # <<>>) =>
        (pc = "done" /\ Len(out) = Len(combined))

\* no fetched record survives the exclusion, the year parsing and the year
\* filter of the run
NoneSurvives ==
    \A x \in dfs : x.code_4 \in EXCLUDED_CODES \/ ~InYearRange(x)

\* C13: when no raw record survives (nothing fetched, every record excluded,
\* or no row left after the year parsing and the year filter) the run ends
\* with an error and returns no table
C13_UpstreamEmptyIsTerminal ==
    (pc # "fetch" /\ NoneSurvives) =>
        /\ pc = "failed"
        /\ error \in {"SCB fetch returned an empty DataFrame.",
                      "No SCB employment rows remain after filtering."}
        /\ combined = <<>>
        /\ out = <<>>

\* a run over an excluded record, a record whose year is not a number and a
\* record outside the year range
C13_Witness ==
    /\ pc = "failed"
    /\ NoneSurvives
    /\ \E x, y, z \in dfs :
        /\ x.code_4 \in EXCLUDED_CODES
        /\ y.code_4 \notin EXCLUDED_CODES /\ YearOf(y).kind = "nan"
        /\ z.code_4 \notin EXCLUDED_CODES /\ YearOf(z).kind = "num"

\* C14: when one record survives the reconciliation, with a numeric value
\* v, and the lookups are empty, the returned table has four rows, one per
\* level, whose codes are the prefixes of code4, each with the record's year
\* and age, employment v, employment_total v and n_children 1
C14_SingleLeafScenario ==
    (pc = "done" /\ Len(raw) = 1 /\ raw[1].value.kind = "num"
                 /\ tables = NoEntries) =>
        /\ Len(out) = 4
        /\ \A n \in Levels :
              /\ out[n].level = n
              /\ out[n].code = Prefix(ZFill(raw[1].code_4, 4), n)
              /\ Len(out[n].code) = n
              /\ out[n].year = YearOf(raw[1]).n
              /\ out[n].age = Strip(raw[1].age)
              /\ out[n].employment = raw[1].value.n
              /\ out[n].employment_total = raw[1].value
              /\ out[n].n_children = Num(1)

\* three tables report one key and the record of the last table is the
\* single leaf
C14_Witness ==
    /\ pc = "done"
    /\ Cardinality(dfs) = 3
    /\ Len(raw) = 1 /\ raw[1].value = Num(3)
    /\ tables = NoEntries
    /\ Len(out) = 4

\* C15: code4 of every hierarchical record has four characters and code3,
\* code2, code1 are its prefixes, so the code of a row of the returned table
\* at level n has n characters
C15_CodesHaveLevelLength ==
    pc # "fetch" =>
        /\ \A i \in 1..Len(employment) :
              /\ Len(employment[i].code[4]) = 4
              /\ \A n \in 1..3 :
                    employment[i].code[n] = Prefix(employment[i].code[4], n)
        /\ pc = "done" =>
              \A i \in 1..Len(out) : Len(out[i].code) = out[i].level

\* C16: employment of every hierarchical record is at least 0, so
\* employment and employment_total of every row of the returned table are
\* at least 0
C16_EmploymentNonNegative ==
    pc # "fetch" =>
        /\ \A i \in 1..Len(employment) : employment[i].employment >= 0
        /\ pc = "done" =>
              \A i \in 1..Len(out) :
                  /\ out[i].employment >= 0
                  /\ out[i].employment_total.kind = "num"
                  /\ out[i].employment_total.n >= 0

\* C19: every (year, code) of the age view of a level has one row in the
\* child counts of the level, and every row of the returned table has a
\* defined n_children of at least 1
C19_ChildrenNeverMissing ==
    pc = "done" =>
        /\ \A n \in Levels :
              \A a \in Range(age_view(employment, n)) :
                  Cardinality({k \in 1..Len(compute_children_maps(employment)[n]) :
                      /\ compute_children_maps(employment)[n][k].year = a.year
                      /\ compute_children_maps(employment)[n][k].code = a.code})
                  = 1
        /\ \A i \in 1..Len(out) :
              /\ out[i].n_children.kind = "num"
              /\ out[i].n_children.n >= 1

\* a returned table whose rows all have employment 0, from records without
\* a numeric value, over two leaf codes
C19_Witness ==
    /\ pc = "done"
    /\ \A i \in 1..Len(out) : out[i].employment = 0
    /\ \E i \in 1..Len(out) :
          out[i].level = 3 /\ out[i].n_children = Num(2)

\* C20: the returned table has at most one row per (level, code, year, age)
C20_OutputKeysUnique ==
    pc = "done" =>
        \A i, j \in 1..Len(out) :
            (/\ out[i].level = out[j].level
             /\ out[i].code = out[j].code
             /\ out[i].year = out[j].year
             /\ out[i].age = out[j].age) => i = j

\* the file at the cache path is absent or holds every row of its payload,
\* a reader has seen nothing else, and a file with a part of the rows has
\* the temporary name
CacheFileWhole ==
    /\ files[SCB_CACHE] = Absent \/ Complete(files[SCB_CACHE])
    /\ rd_seen = Absent \/ Complete(rd_seen)
    /\ \A p \in Paths :
          (files[p].exists /\ ~Complete(files[p])) =>
              (p = tmp_path(SCB_CACHE) /\ p # SCB_CACHE)

\* a step leaves the file at the cache path as it was, or absent, or with
\* the complete CSV of the payload being written
CacheFileStep ==
    files'[SCB_CACHE] \in {files[SCB_CACHE], Absent, Csv(payload.ver, CsvRows)}

\* C17: in every state, also after an interruption between two steps and
\* with a reader in between, the file at the cache path is absent, the
\* complete content it had before, or the complete new CSV; content written
\* in part exists only under the temporary name
C17_NoPartialCacheFile == [](CacheFileWhole) /\ [][CacheFileStep]_vars

\* the new CSV is written in part under the temporary name while the cache
\* path holds the complete older CSV and a reader is about to read it
C17_Witness ==
    /\ lp = "write"
    /\ files[tmp_path(SCB_CACHE)] = Csv(2, 1)
    /\ files[SCB_CACHE] = Csv(1, CsvRows)
    /\ rd = "read"

\* C18: every run of the refresh handler completes without error and sets
\* payload_store to the table the pipeline computes from the current
\* upstream data
C18_RefreshRecomputes ==
    [][refreshes' # refreshes =>
          (refresh_error' = "none" /\ payload_store' = Frame(upstream))]_vars

====
